---- MODULE Spec2Model ----
(***************************************************************************)
(* rtl-sdr-snipper: a producer thread reads fixed-size sample blocks from  *)
(* the radio and sends them over an unbounded channel; a consumer thread   *)
(* scores each block, keeps it in a VecDeque and writes the deque to a     *)
(* file at the trailing edge of a burst.  A ctrl-c handler sets SHUTDOWN;  *)
(* main joins both threads.                                                *)
(*                                                                         *)
(* A block is abstracted to [id, hit]: id is the ordinal of the read_sync  *)
(* call that produced it, hit is the number of its FFT windows whose       *)
(* interestingness exceeds 3 (interesting_in_this_buf, main.rs:107-115).   *)
(***************************************************************************)
EXTENDS Integers, Sequences, FiniteSets, TLC

VARIABLES
    shutdown,   \* static SHUTDOWN: AtomicBool                (main.rs:26)
    requests,   \* number of ctrl-c requests delivered so far
    proc,       \* "running" | "exit0" | "exit1" | "exit101"
    mpc,        \* main thread: "joinProcess" | "joinReceive" | "returned" | "panicked"
    ppc,        \* receive thread: "open" | "loop" | "read" | "send" | "close" | "done" | "panicked"
    pexit,      \* why the receive thread left its loop
    cpc,        \* process thread: "loop" | "recv" | "ingest" | "done" | "panicked"
    sdr,        \* the device: "unopened" | "open" | "closed"
    nread,      \* read_sync calls issued so far
    pbuf,       \* receive thread's buf (a sequence of 0 or 1 block)
    queue,      \* the mpsc channel's contents, oldest first
    cur,        \* process thread's buf (a sequence of 0 or 1 block)
    buffer,     \* process thread's VecDeque, oldest first     (main.rs:103)
    files,      \* the sink: one entry per file created, in creation order
    captured,   \* history: full blocks returned by read_sync, in order
    ingested,   \* history: blocks pushed to the VecDeque, in order
    burst,      \* history: ids of hit > 0 blocks since the deque was last empty or quiet
    last,       \* history: what the most recent loop body of process did
    after,      \* history: what the workers did since SHUTDOWN became true
    spectrum,   \* bin magnitudes of the windows of the block being scored
    score,      \* result of the latest estimate_interestingness
    interesting_in_this_buf,  \* windows of the block counted so far (main.rs:107)
    win         \* windows of the block scored so far

vars == <<shutdown, requests, proc, mpc, ppc, pexit, cpc, sdr, nread, pbuf,
          queue, cur, buffer, files, captured, ingested, burst, last, after,
          spectrum, score, interesting_in_this_buf, win>>

----------------------------------------------------------------------------
(* Bounds of the model *)

\* ctrl-c requests delivered in one run
MaxRequests == 2
\* read_sync calls in one run of the threaded program
MaxReads == 19
\* blocks at the head of the device stream that may carry hits
BurstLen == 3
\* blocks fed to the process loop when it is run alone
MaxBlocks == 19
\* blocks with hit > 0 fed to the process loop when it is run alone
MaxActive == 3
\* leading and trailing quiet blocks of the three-event scenario
MaxLead == 17
MaxTrail == 18

\* read_sync calls in one run of the threaded program when its steps
\* after the shutdown request are counted
MaxStopReads == 4
\* bursts fed to the process loop in the repeated-burst scenario
MaxPeriods == 2

\* hit counts of the input blocks: the code tests a hit count only for
\* == 0 (line 123) and > 1 (line 132), so 0, 1 and 2 stand for every value
Hits == {0, 1, 2}

----------------------------------------------------------------------------
(* The process loop body, main.rs:117-143 *)

\* let gap = 15;
gap == 15

\* minimum number of hit > 1 blocks in the deque that justifies a flush:
\* the code tests interesting_events > 1
minEvents == 2

IsQuiet(b) == b.hit = 0

\* a quiet test that is content with gap entries
currently_uninteresting_AtLeastGap(buf) ==
    /\ Len(buf) >= gap
    /\ \A i \in (Len(buf) - gap + 1)..Len(buf) : IsQuiet(buf[i])

\* buffer.len() > gap && buffer.iter().rev().take(gap).all(|(i, _)| *i == 0)
currently_uninteresting(buf) ==
    /\ Len(buf) > gap
    /\ \A i \in (Len(buf) - gap + 1)..Len(buf) : IsQuiet(buf[i])

\* if currently_uninteresting { buffer.pop_front(); }
pop_front(buf) == IF buf = <<>> THEN buf ELSE Tail(buf)

\* an eviction that drains the deque down to gap entries
AfterEvict_Drain(buf) ==
    IF currently_uninteresting(buf) THEN SubSeq(buf, Len(buf) - gap + 1, Len(buf)) ELSE buf

AfterEvict(buf) == IF currently_uninteresting(buf) THEN pop_front(buf) ELSE buf

\* buffer.push_back((interesting_in_this_buf, buf));
push_back(buf, blk) == Append(buf, blk)

\* a count that takes every block with a hit for an event
interesting_events_AnyHit(buf) == Cardinality({i \in DOMAIN buf : buf[i].hit > 0})

\* buffer.iter().filter(|(i, _)| *i > 1).count()
interesting_events(buf) == Cardinality({i \in DOMAIN buf : buf[i].hit > 1})

\* a flush that asks for more than two events
ShouldFlush_MoreThanTwo(wasQuiet, buf) == wasQuiet /\ interesting_events(buf) > 2

\* if currently_uninteresting && interesting_events > 1
ShouldFlush(wasQuiet, buf) == wasQuiet /\ interesting_events(buf) > 1

Ids(s) == [i \in DOMAIN s |-> s[i].id]

\* buffer.truncate(2): a flush that leaves the two oldest blocks in the deque
truncate0_KeepTwo(buf) == IF Len(buf) <= 2 THEN buf ELSE SubSeq(buf, 1, 2)

\* a flush that forgets to clear the deque
truncate0_Keep(buf) == buf

\* buffer.truncate(0);
truncate0(buf) == <<>>

\* a write_out that skips the oldest block
write_out_SkipFirst(fs, buf, outcome, k) ==
    CASE outcome = "ok"         -> Append(fs, [ids |-> Tail(Ids(buf)), complete |-> TRUE])
      [] outcome = "createFail" -> fs
      [] outcome = "writeFail"  -> Append(fs, [ids |-> SubSeq(Ids(buf), 1, k), complete |-> FALSE])

\* write_out: File::create, then write_all per block, then flush.
\* A file is [ids: the blocks written in full, complete: write_out returned Ok].
write_out(fs, buf, outcome, k) ==
    CASE outcome = "ok"         -> Append(fs, [ids |-> Ids(buf), complete |-> TRUE])
      [] outcome = "createFail" -> fs
      [] outcome = "writeFail"  -> Append(fs, [ids |-> SubSeq(Ids(buf), 1, k), complete |-> FALSE])

\* the deque as it stands at line 130, after the eviction and the append
Held(buf, blk) == push_back(AfterEvict(buf), blk)

WillFlush(buf, blk) == ShouldFlush(currently_uninteresting(buf), Held(buf, blk))

\* what the sink may do on this pass: <<outcome, blocks written in full>>
SinkChoices(buf, blk) ==
    IF WillFlush(buf, blk)
      THEN {<<"ok", 0>>, <<"createFail", 0>>}
           \cup {<<"writeFail", k>> : k \in 0..Len(Held(buf, blk))}
      ELSE {<<"ok", 0>>}

NoBlock == [id |-> 0, hit |-> 0]

NoLast == [n |-> 0, blk |-> NoBlock, before |-> <<>>, nfiles |-> 0,
           outcome |-> "ok", flushed |-> FALSE, burst |-> {}]

\* One pass of lines 117-143 on the scored block blk.
Ingest(blk, outcome, k) ==
    LET wasQuiet == currently_uninteresting(buffer)
        b2 == Held(buffer, blk)
        fl == ShouldFlush(wasQuiet, b2)
        started == buffer = <<>> \/ wasQuiet
    IN  /\ files' = IF fl THEN write_out(files, b2, outcome, k) ELSE files
        /\ buffer' = IF fl /\ outcome = "ok" THEN truncate0(b2) ELSE b2
        /\ cpc' = IF fl /\ outcome # "ok" THEN "panicked" ELSE "loop"
        /\ ingested' = Append(ingested, blk)
        /\ burst' = (IF started THEN {} ELSE burst)
                      \cup (IF blk.hit > 0 THEN {blk.id} ELSE {})
        /\ last' = [n |-> Len(ingested) + 1, blk |-> blk, before |-> buffer,
                    nfiles |-> Len(files), outcome |-> outcome, flushed |-> fl,
                    burst |-> burst]

----------------------------------------------------------------------------
(* Initial state: main has registered the handler and spawned both threads *)

NoAfter == [reads |-> 0, sends |-> 0, recvs |-> 0, ingests |-> 0]

NoScore == [kind |-> "none", high |-> 0, low |-> 0]

InitThreads ==
    /\ shutdown = FALSE
    /\ requests = 0
    /\ proc = "running"
    /\ mpc = "joinProcess"
    /\ ppc = "open"
    /\ pexit = "none"
    /\ cpc = "loop"
    /\ sdr = "unopened"
    /\ nread = 0
    /\ pbuf = <<>>
    /\ queue = <<>>
    /\ cur = <<>>
    /\ buffer = <<>>
    /\ files = <<>>
    /\ captured = <<>>
    /\ ingested = <<>>
    /\ burst = {}
    /\ last = NoLast
    /\ after = NoAfter
    /\ score = NoScore
    /\ interesting_in_this_buf = 0
    /\ win = 0

Init ==
    /\ InitThreads
    /\ spectrum = <<>>

Running == proc = "running"

\* a thread that has returned or panicked has dropped what it owned
ProducerEnded == ppc \in {"done", "panicked"}
ConsumerEnded == cpc \in {"done", "panicked"}
\* Sender tx is owned by receive() and dropped when it returns or unwinds
txAlive == ~ProducerEnded
\* Receiver rx is owned by process() and dropped when it returns or unwinds
rxAlive == ~ConsumerEnded

EBVars == <<buffer, files, ingested, burst, last>>
ProducerVars == <<ppc, pexit, sdr, nread, pbuf, captured>>
MainVars == <<proc, mpc>>
SignalVars == <<shutdown, requests>>
ScoreVars == <<spectrum, score, interesting_in_this_buf, win>>

\* history: one more step of kind f, counted once SHUTDOWN is true
Since(f) == IF shutdown THEN [after EXCEPT ![f] = @ + 1] ELSE after

----------------------------------------------------------------------------
(* ctrl-c handler, main.rs:27-33 *)

\* a handler that sets the flag again instead of exiting
CtrlC_NoExit ==
    /\ Running
    /\ requests < MaxRequests
    /\ requests' = requests + 1
    /\ shutdown' = TRUE
    /\ UNCHANGED <<proc, mpc, cpc, queue, cur>>
    /\ UNCHANGED ProducerVars
    /\ UNCHANGED EBVars
    /\ UNCHANGED after
    /\ UNCHANGED ScoreVars

CtrlC ==
    /\ Running
    /\ requests < MaxRequests
    /\ requests' = requests + 1
    /\ IF shutdown
         THEN /\ proc' = "exit1"
              /\ UNCHANGED shutdown
         ELSE /\ shutdown' = TRUE
              /\ UNCHANGED proc
    /\ UNCHANGED <<mpc, cpc, queue, cur>>
    /\ UNCHANGED ProducerVars
    /\ UNCHANGED EBVars
    /\ UNCHANGED after
    /\ UNCHANGED ScoreVars

----------------------------------------------------------------------------
(* receive thread, main.rs:54-98 *)

\* RtlSdr::open(RTL_INDEX).expect(..); config_sdr(..).unwrap()
ProducerOpen ==
    /\ Running
    /\ ppc = "open"
    /\ \E r \in {"ok", "openFail", "configFail"} :
         /\ sdr' = IF r = "openFail" THEN "unopened" ELSE "open"
         /\ ppc' = IF r = "ok" THEN "loop" ELSE "panicked"
         /\ pexit' = IF r = "ok" THEN "none" ELSE "startFault"
    /\ UNCHANGED <<nread, pbuf, captured, queue, cur, cpc>>
    /\ UNCHANGED MainVars
    /\ UNCHANGED SignalVars
    /\ UNCHANGED EBVars
    /\ UNCHANGED after
    /\ UNCHANGED ScoreVars

\* if shutdown.load(Ordering::Relaxed) { break; }
ProducerCheck ==
    /\ Running
    /\ ppc = "loop"
    /\ IF shutdown
         THEN ppc' = "close" /\ pexit' = "shutdown"
         ELSE ppc' = "read" /\ UNCHANGED pexit
    /\ UNCHANGED <<sdr, nread, pbuf, captured, queue, cur, cpc>>
    /\ UNCHANGED MainVars
    /\ UNCHANGED SignalVars
    /\ UNCHANGED EBVars
    /\ UNCHANGED after
    /\ UNCHANGED ScoreVars

\* hit counts the device input may give block id
DeviceHits(id) == IF id <= BurstLen THEN Hits ELSE {0}

\* a read loop that sends the block of a short read and carries on
ProducerRead_SendShort ==
    /\ Running
    /\ ppc = "read"
    /\ nread < MaxReads
    /\ nread' = nread + 1
    /\ \/ \E h \in DeviceHits(nread + 1) :
            /\ pbuf' = <<[id |-> nread + 1, hit |-> h]>>
            /\ captured' = Append(captured, [id |-> nread + 1, hit |-> h])
            /\ ppc' = "send"
            /\ UNCHANGED pexit
       \/ /\ pexit' = "readErr"
          /\ ppc' = "close"
          /\ UNCHANGED <<pbuf, captured>>
       \/ /\ pexit' = "short"
          /\ pbuf' = <<[id |-> nread + 1, hit |-> 0]>>
          /\ ppc' = "send"
          /\ UNCHANGED captured
    /\ UNCHANGED <<sdr, queue, cur, cpc>>
    /\ UNCHANGED MainVars
    /\ UNCHANGED SignalVars
    /\ UNCHANGED EBVars
    /\ UNCHANGED after
    /\ UNCHANGED ScoreVars

\* let n = sdr.read_sync(&mut *buf); break on Err and on a short read
ProducerReadBody ==
    /\ Running
    /\ ppc = "read"
    /\ nread' = nread + 1
    /\ \/ \E h \in DeviceHits(nread + 1) :
            /\ pbuf' = <<[id |-> nread + 1, hit |-> h]>>
            /\ captured' = Append(captured, [id |-> nread + 1, hit |-> h])
            /\ ppc' = "send"
            /\ UNCHANGED pexit
       \/ \E r \in {"readErr", "short"} :
            /\ pexit' = r
            /\ ppc' = "close"
            /\ UNCHANGED <<pbuf, captured>>
    /\ UNCHANGED <<sdr, queue, cur, cpc>>
    /\ UNCHANGED MainVars
    /\ UNCHANGED SignalVars
    /\ UNCHANGED EBVars
    /\ UNCHANGED ScoreVars

ProducerRead ==
    /\ nread < MaxReads
    /\ ProducerReadBody
    /\ UNCHANGED after

\* a channel that hands out the newest message first
send_Front(q, b) == <<b>> \o q

\* Sender::send: enqueue, or Err when the Receiver has been dropped
send(q, b) == Append(q, b)

\* tx.send(buf).expect("failed to send");
ProducerSendBody ==
    /\ Running
    /\ ppc = "send"
    /\ IF rxAlive
         THEN /\ queue' = send(queue, pbuf[1])
              /\ ppc' = "loop"
              /\ UNCHANGED pexit
         ELSE /\ ppc' = "panicked"
              /\ pexit' = "sendFail"
              /\ UNCHANGED queue
    /\ pbuf' = <<>>
    /\ UNCHANGED <<sdr, nread, captured, cur, cpc>>
    /\ UNCHANGED MainVars
    /\ UNCHANGED SignalVars
    /\ UNCHANGED EBVars
    /\ UNCHANGED ScoreVars

ProducerSend ==
    /\ ProducerSendBody
    /\ UNCHANGED after

\* sdr.close().unwrap();
ProducerClose ==
    /\ Running
    /\ ppc = "close"
    /\ sdr' = "closed"
    /\ ppc' = "done"
    /\ UNCHANGED <<pexit, nread, pbuf, captured, queue, cur, cpc>>
    /\ UNCHANGED MainVars
    /\ UNCHANGED SignalVars
    /\ UNCHANGED EBVars
    /\ UNCHANGED after
    /\ UNCHANGED ScoreVars

----------------------------------------------------------------------------
(* process thread, main.rs:100-145 *)

\* a loop test that drains the queue before it honours the flag
ConsumerCheck_Drain ==
    /\ Running
    /\ cpc = "loop"
    /\ cpc' = IF shutdown /\ queue = <<>> THEN "done" ELSE "recv"
    /\ UNCHANGED <<queue, cur>>
    /\ UNCHANGED ProducerVars
    /\ UNCHANGED MainVars
    /\ UNCHANGED SignalVars
    /\ UNCHANGED EBVars
    /\ UNCHANGED after
    /\ UNCHANGED ScoreVars

\* a loop exit that writes what the deque still holds
ConsumerCheck_FinalFlush ==
    /\ Running
    /\ cpc = "loop"
    /\ cpc' = IF shutdown THEN "done" ELSE "recv"
    /\ files' = IF shutdown /\ buffer # <<>>
                  THEN write_out(files, buffer, "ok", 0) ELSE files
    /\ UNCHANGED <<queue, cur, buffer, ingested, burst, last>>
    /\ UNCHANGED ProducerVars
    /\ UNCHANGED MainVars
    /\ UNCHANGED SignalVars
    /\ UNCHANGED after
    /\ UNCHANGED ScoreVars

\* while !shutdown.load(Ordering::Relaxed)
ConsumerCheck ==
    /\ Running
    /\ cpc = "loop"
    /\ cpc' = IF shutdown THEN "done" ELSE "recv"
    /\ UNCHANGED <<queue, cur>>
    /\ UNCHANGED ProducerVars
    /\ UNCHANGED MainVars
    /\ UNCHANGED SignalVars
    /\ UNCHANGED EBVars
    /\ UNCHANGED after
    /\ UNCHANGED ScoreVars

\* Receiver::recv: the oldest message
recv(q) == Head(q)

\* let buf = rx.recv().unwrap();  blocks while the channel is empty and the
\* Sender lives; Err once it is empty and the Sender has been dropped
ConsumerRecvBody ==
    /\ Running
    /\ cpc = "recv"
    /\ \/ /\ queue # <<>>
          /\ cur' = <<recv(queue)>>
          /\ queue' = Tail(queue)
          /\ cpc' = "ingest"
       \/ /\ queue = <<>>
          /\ ~txAlive
          /\ cpc' = "panicked"
          /\ UNCHANGED <<queue, cur>>
    /\ UNCHANGED ProducerVars
    /\ UNCHANGED MainVars
    /\ UNCHANGED SignalVars
    /\ UNCHANGED EBVars
    /\ UNCHANGED ScoreVars

ConsumerRecv ==
    /\ ConsumerRecvBody
    /\ UNCHANGED after

\* lines 107-143 on the received block
ConsumerIngestBody ==
    /\ Running
    /\ cpc = "ingest"
    /\ \E c \in SinkChoices(buffer, cur[1]) : Ingest(cur[1], c[1], c[2])
    /\ cur' = <<>>
    /\ UNCHANGED queue
    /\ UNCHANGED ProducerVars
    /\ UNCHANGED MainVars
    /\ UNCHANGED SignalVars
    /\ UNCHANGED ScoreVars

ConsumerIngest ==
    /\ ConsumerIngestBody
    /\ UNCHANGED after

----------------------------------------------------------------------------
(* main thread, main.rs:47-50 *)

\* process_thread.join().unwrap();
MainJoinProcess ==
    /\ Running
    /\ mpc = "joinProcess"
    /\ ConsumerEnded
    /\ IF cpc = "done"
         THEN mpc' = "joinReceive" /\ UNCHANGED proc
         ELSE mpc' = "panicked" /\ proc' = "exit101"
    /\ UNCHANGED <<cpc, queue, cur>>
    /\ UNCHANGED ProducerVars
    /\ UNCHANGED SignalVars
    /\ UNCHANGED EBVars
    /\ UNCHANGED after
    /\ UNCHANGED ScoreVars

\* receive_thread.join().unwrap(); then main returns
MainJoinReceive ==
    /\ Running
    /\ mpc = "joinReceive"
    /\ ProducerEnded
    /\ IF ppc = "done"
         THEN mpc' = "returned" /\ proc' = "exit0"
         ELSE mpc' = "panicked" /\ proc' = "exit101"
    /\ UNCHANGED <<cpc, queue, cur>>
    /\ UNCHANGED ProducerVars
    /\ UNCHANGED SignalVars
    /\ UNCHANGED EBVars
    /\ UNCHANGED after
    /\ UNCHANGED ScoreVars

----------------------------------------------------------------------------

Next ==
    \/ CtrlC
    \/ ProducerOpen
    \/ ProducerCheck
    \/ ProducerRead
    \/ ProducerSend
    \/ ProducerClose
    \/ ConsumerCheck
    \/ ConsumerRecv
    \/ ConsumerIngest
    \/ MainJoinProcess
    \/ MainJoinReceive

Spec == Init /\ [][Next]_vars

----------------------------------------------------------------------------
(* The threaded program with the workers' steps after the shutdown request *)
(* counted in the history variable after                                   *)

StopRead ==
    /\ nread < MaxStopReads
    /\ ProducerReadBody
    /\ after' = Since("reads")

StopSend ==
    /\ ProducerSendBody
    /\ after' = IF rxAlive THEN Since("sends") ELSE after

StopRecv ==
    /\ ConsumerRecvBody
    /\ after' = IF queue # <<>> THEN Since("recvs") ELSE after

StopIngest ==
    /\ ConsumerIngestBody
    /\ after' = Since("ingests")

NextStop ==
    \/ CtrlC
    \/ ProducerOpen
    \/ ProducerCheck
    \/ StopRead
    \/ StopSend
    \/ ProducerClose
    \/ ConsumerCheck
    \/ StopRecv
    \/ StopIngest
    \/ MainJoinProcess
    \/ MainJoinReceive

SpecStop == Init /\ [][NextStop]_vars

----------------------------------------------------------------------------
(* The process loop alone, fed an arbitrary sequence of scored blocks *)

HitsOf(s) == [i \in DOMAIN s |-> s[i].hit]

ActiveCount(s) == Cardinality({i \in DOMAIN s : s[i].hit > 0})

OtherVars == <<shutdown, requests, proc, mpc, ppc, pexit, sdr, nread, pbuf,
               queue, cur, captured, after, spectrum, score,
               interesting_in_this_buf, win>>

\* one iteration of the while loop of process, lines 106-143, on any block
EBIngest ==
    /\ cpc = "loop"
    /\ Len(ingested) < MaxBlocks
    /\ \E h \in Hits :
         /\ h > 0 => ActiveCount(ingested) < MaxActive
         /\ LET blk == [id |-> Len(ingested) + 1, hit |-> h]
            IN  \E c \in SinkChoices(buffer, blk) : Ingest(blk, c[1], c[2])
    /\ UNCHANGED OtherVars

SpecEB == Init /\ [][EBIngest]_vars

----------------------------------------------------------------------------
(* The process loop alone, fed the three-event scenario:                   *)
(* quiet lead, three hit-2 blocks less than gap apart, quiet tail          *)

\* quiet blocks between two events of the scenario: fewer than gap
MaxInner == gap - 1

Twos(h) == {i \in DOMAIN h : h[i] = 2}

Max(S) == CHOOSE x \in S : \A y \in S : y <= x
Min(S) == CHOOSE x \in S : \A y \in S : x <= y

\* number of zero entries at the end of h
TrailingZeros(h) ==
    LET nz == {i \in DOMAIN h : h[i] # 0}
    IN  IF nz = {} THEN Len(h) ELSE Len(h) - Max(nz)

InScenario(h) ==
    LET t == Twos(h)
    IN  /\ \A i \in DOMAIN h : h[i] \in {0, 2}
        /\ Cardinality(t) <= 3
        /\ t = {} => Len(h) <= MaxLead
        /\ t # {} => Min(t) - 1 \in gap..MaxLead
        /\ \A i \in t : \A j \in t :
             (i < j /\ ~\E m \in t : i < m /\ m < j) => j - i - 1 <= MaxInner
        /\ (t # {} /\ Cardinality(t) < 3) => TrailingZeros(h) <= MaxInner
        /\ Cardinality(t) = 3 => TrailingZeros(h) <= MaxTrail

\* one iteration of the while loop of process on the next scenario block,
\* the sink accepting every write
BurstIngest ==
    /\ cpc = "loop"
    /\ \E h \in Hits :
         /\ InScenario(Append(HitsOf(ingested), h))
         /\ Ingest([id |-> Len(ingested) + 1, hit |-> h], "ok", 0)
    /\ UNCHANGED OtherVars

SpecBurst == Init /\ [][BurstIngest]_vars

----------------------------------------------------------------------------
(* Claims about the event buffer *)

\* the most recent pass appended a file to the sink
Wrote == Len(files) > last.nfiles

\* "wasQuiet": before the append the buffer had more than gap entries and
\* its most recent gap entries all had hit count 0
QuietBefore ==
    /\ Len(last.before) > gap
    /\ \A i \in DOMAIN last.before : i > Len(last.before) - gap => last.before[i].hit = 0

\* entries with hit count > 1, counted after the eviction and the append
EventsAfter ==
    LET kept == IF QuietBefore THEN Tail(last.before) ELSE last.before
    IN  Cardinality({i \in DOMAIN kept : kept[i].hit > 1})
          + (IF last.blk.hit > 1 THEN 1 ELSE 0)

\* the sink refused the flush of the most recent pass
SinkFailed == last.flushed /\ last.outcome # "ok"

\* C1 as stated: an ingest flushes iff wasQuiet holds and the number of
\* buffered entries with hit count > 1 is strictly greater than minEvents = 2
C1_Orig_FlushIffMoreThanMinEvents ==
    (last.n > 0 /\ last.outcome = "ok")
      => (Wrote <=> (QuietBefore /\ EventsAfter > minEvents))

\* C1 amended: an ingest flushes iff wasQuiet holds and the number of buffered
\* entries with hit count > 1, counted after the eviction and the append, is
\* at least minEvents = 2 (strictly greater than 1); in every other case the
\* ingest writes nothing to the sink
C1_FlushIffQuietAndMinEvents ==
    last.n > 0 =>
      /\ Wrote => (QuietBefore /\ EventsAfter >= minEvents)
      /\ (QuietBefore /\ EventsAfter >= minEvents) => (Wrote \/ SinkFailed)
      /\ ~(QuietBefore /\ EventsAfter >= minEvents) => (files = SubSeq(files, 1, last.nfiles) /\ ~SinkFailed)

C1_Witness ==
    /\ last.n > 0
    /\ Wrote
    /\ QuietBefore
    /\ EventsAfter = minEvents

\* the scenario of C2 is complete: three hit-2 blocks, then n or more quiet blocks
ScenarioDone(n) ==
    /\ Cardinality(Twos(HitsOf(ingested))) = 3
    /\ TrailingZeros(HitsOf(ingested)) >= n

\* the one flush took the whole deque and left it empty
OneFullFlush ==
    /\ Len(files) = 1
    /\ files[1].complete
    /\ \E n \in 1..Len(files[1].ids) :
         /\ n = Len(files[1].ids)
         /\ \A i \in 1..n : files[1].ids[i] = files[1].ids[1] + i - 1

C3_Orig_QuietCapsLength ==
    TrailingZeros(HitsOf(ingested)) >= gap + 1 => Len(buffer) <= gap + 1

\* C4 as stated: an ingest that flushes is the ingest of a quiet block, so no
\* flushed content ends with a block of hit count > 0
C4_Orig_FlushOnlyOnQuietBlock ==
    (last.n > 0 /\ Wrote /\ last.outcome = "ok") => last.blk.hit = 0

\* C5 as stated: a flush contains every hit > 0 block ingested since the deque
\* was last empty or quiet; none of them was evicted before the write
C5_Orig_FlushHoldsWholeBurst ==
    (last.n > 0 /\ Wrote /\ last.outcome = "ok" /\ last.blk.hit = 0) =>
      \A b \in last.burst : \E j \in DOMAIN files[Len(files)].ids : files[Len(files)].ids[j] = b

----------------------------------------------------------------------------
(* Claims about the threads *)

\* C6 as stated: whenever the receive thread has ended after entering its
\* loop, the radio source has been closed
C6_Orig_ClosedBeforeProducerEnds ==
    (ProducerEnded /\ pexit # "startFault") => sdr = "closed"

\* C7 as stated: with the sink accepting every write, once the receive thread
\* has left on the Shutdown Signal the process thread ends only by observing
\* the signal at its loop boundary, never abnormally
C7_Orig_ConsumerLeavesByObservingSignal ==
    (pexit = "shutdown" /\ ConsumerEnded /\ ~SinkFailed) => cpc = "done"

\* C8 as stated: with a single shutdown request the process exits only after
\* both worker threads have finished, sink faults included
C8_Orig_ExitOnlyAfterBothFinished ==
    (~Running /\ requests = 1) => (ProducerEnded /\ ConsumerEnded)

IsPrefix(a, b) == Len(a) <= Len(b) /\ SubSeq(b, 1, Len(a)) = a

\* the blocks on their way from read_sync to the deque, oldest first
InFlight == ingested \o cur \o queue \o pbuf

\* C9: the sequence of blocks ingested is at every moment a prefix of the
\* sequence of full blocks read from the radio: what has been ingested, then
\* the block being scored, the queue and the block being sent are the blocks
\* read, in order, none lost, duplicated or reordered (the one block whose
\* send failed excepted)
C9_IngestedPrefixOfCaptured ==
    /\ IsPrefix(ingested, captured)
    /\ IsPrefix(InFlight, captured)
    /\ pexit # "sendFail" => InFlight = captured

C9_Witness ==
    /\ Len(ingested) >= 2
    /\ Len(queue) >= 2
    /\ cur # <<>>
    /\ pbuf # <<>>

\* C10: the Shutdown Signal is false until the first request, true from the
\* first request on; the first request leaves the process running, and a
\* request that finds the signal true exits the process (status 1) at once
C10_ShutdownSignal ==
    /\ shutdown <=> requests >= 1
    /\ proc = "exit1" <=> requests >= 2
    /\ requests <= 1 => proc \in {"running", "exit0", "exit101"}

C10_Witness ==
    /\ proc = "exit1"
    /\ requests = 2
    /\ shutdown
    /\ ~ProducerEnded
    /\ ~ConsumerEnded

----------------------------------------------------------------------------
(* More claims about the event buffer *)

\* the deque at flush time of the most recent pass, rebuilt from what the
\* pass found: the oldest entry dropped if it was quiet, the new block last
HeldAtFlush ==
    Append(IF QuietBefore THEN Tail(last.before) ELSE last.before, last.blk)

\* ids of s are consecutive and ascending
Contiguous(s) == \A i \in DOMAIN s : s[i] = s[1] + i - 1

QualifyingIngested == Cardinality({i \in DOMAIN ingested : ingested[i].hit > 1})

\* C14: while at most one ingested block has hit count > 1 (the others 0 or
\* 1, in any arrangement) no flush occurs: nothing is written and no write
\* is attempted
C14_NoFlushWithOneEvent ==
    QualifyingIngested <= 1 => (files = <<>> /\ ~last.flushed /\ cpc = "loop")

C14_Witness ==
    /\ QualifyingIngested = 1
    /\ ActiveCount(ingested) = MaxActive
    /\ last.n > 0
    /\ QuietBefore
    /\ interesting_events(buffer) = 1
    /\ files = <<>>

\* C15: an ingest evicts the oldest entry iff, before the append, the buffer
\* holds more than gap entries and its most recent gap entries are all quiet;
\* the new block goes to the tail after the eviction and nothing else is
\* removed, reordered or modified, a flush clearing the whole buffer apart
C15_EvictIffQuietThenAppend ==
    last.n > 0 =>
      IF Wrote /\ last.outcome = "ok"
        THEN buffer = <<>>
        ELSE /\ QuietBefore => buffer = Append(Tail(last.before), last.blk)
             /\ ~QuietBefore => buffer = Append(last.before, last.blk)

C15_Witness ==
    /\ last.n > 0
    /\ ~Wrote
    /\ QuietBefore
    /\ last.before[1].hit > 0
    /\ last.blk.hit > 0
    /\ buffer = Append(Tail(last.before), last.blk)

\* longest run of consecutive zero entries of h
MaxZeroRun(h) ==
    LET runs == {r \in 0..Len(h) :
                   \E i \in 1..(Len(h) - r + 1) : \A j \in i..(i + r - 1) : h[j] = 0}
    IN  Max(runs)

\* C18: between flushes the buffer length never decreases: an ingest that
\* does not flush leaves it unchanged when wasQuiet holds and adds one
\* otherwise, only a flush resets it to 0; so on an input of hit counts 0 or
\* 1 without gap consecutive zeros the buffer holds every block ingested
C18_LengthNeverDecreasesBetweenFlushes ==
    /\ last.n > 0 =>
         IF Wrote /\ last.outcome = "ok"
           THEN Len(buffer) = 0
           ELSE Len(buffer) = Len(last.before) + (IF QuietBefore THEN 0 ELSE 1)
    /\ (Len(buffer) = 0 /\ last.n > 0) => (Wrote /\ last.outcome = "ok")
    /\ (QualifyingIngested = 0 /\ MaxZeroRun(HitsOf(ingested)) < gap)
         => Len(buffer) = Len(ingested)

C18_Witness ==
    /\ QualifyingIngested = 0
    /\ MaxZeroRun(HitsOf(ingested)) < gap
    /\ Len(ingested) = MaxBlocks
    /\ Len(buffer) = MaxBlocks

----------------------------------------------------------------------------
(* The process loop alone, fed one burst after another: BurstLen blocks    *)
(* that may be events, then gap + 1 quiet blocks, MaxPeriods times over    *)

Period == BurstLen + gap + 1

\* hit counts the scenario allows at position pos of the stream
RepeatHits(pos) == IF (pos - 1) % Period < BurstLen THEN {0, 2} ELSE {0}

\* one iteration of the while loop of process on the next block of the stream
RepeatIngest ==
    /\ cpc = "loop"
    /\ Len(ingested) < MaxPeriods * Period
    /\ \E h \in RepeatHits(Len(ingested) + 1) :
         LET blk == [id |-> Len(ingested) + 1, hit |-> h]
         IN  \E c \in SinkChoices(buffer, blk) : Ingest(blk, c[1], c[2])
    /\ UNCHANGED OtherVars

SpecRepeat == Init /\ [][RepeatIngest]_vars

\* C19: across all flushes of a run every captured block is written to the
\* sink at most once: within a file the blocks ascend, and of two files the
\* earlier one ends before the later one begins
C19_FilesDisjointInCaptureOrder ==
    /\ \A f \in DOMAIN files :
         \A i \in DOMAIN files[f].ids : \A j \in DOMAIN files[f].ids :
           i < j => files[f].ids[i] < files[f].ids[j]
    /\ \A f \in DOMAIN files : \A g \in DOMAIN files :
         (f < g /\ files[f].ids # <<>> /\ files[g].ids # <<>>)
           => files[f].ids[Len(files[f].ids)] < files[g].ids[1]

C19_Witness ==
    /\ Len(files) = 2
    /\ files[1].complete
    /\ files[2].complete
    /\ Len(files[1].ids) >= gap
    /\ Len(files[2].ids) >= gap

----------------------------------------------------------------------------
(* More claims about the threads *)

\* C16: shutdown is observed at loop boundaries only, so after the Shutdown
\* Signal becomes true the producer issues at most one read and enqueues at
\* most one block, and the consumer completes at most one receive and one
\* ingest; once it has left, the queue keeps what it did not take
C16_AtMostOneMoreUnitOfWork ==
    /\ after.reads <= 1
    /\ after.sends <= 1
    /\ after.recvs <= 1
    /\ after.ingests <= 1
    /\ ~shutdown => after = NoAfter
    /\ cpc = "done" => (shutdown /\ cur = <<>>)

C16_Witness ==
    /\ after = [reads |-> 1, sends |-> 1, recvs |-> 1, ingests |-> 1]
    /\ cpc = "done"
    /\ ppc = "done"
    /\ Len(queue) >= 2

\* C17: after a device read failure or a short read the producer enqueues
\* neither that block nor a later one and issues no further read: the failed
\* read is the last one, the producer goes on to close the device, and only
\* blocks of full reads are on their way to the consumer
C17_NoSendNoReadAfterFailedRead ==
    /\ nread = Len(captured) + (IF pexit \in {"readErr", "short"} THEN 1 ELSE 0)
    /\ pexit \in {"readErr", "short"} => (ppc \in {"close", "done"} /\ pbuf = <<>>)
    /\ \A i \in DOMAIN queue : \E j \in DOMAIN captured : queue[i] = captured[j]
    /\ \A i \in DOMAIN pbuf : pbuf[i] = captured[Len(captured)]
    /\ Len(ingested) + Len(cur) + Len(queue) + Len(pbuf) <= Len(captured)

C17_Witness ==
    /\ pexit = "short"
    /\ ppc = "done"
    /\ Len(captured) >= 2
    /\ Len(ingested) = Len(captured)
    /\ nread = Len(captured) + 1

\* C20: a graceful shutdown performs no final flush: once the consumer has
\* observed the Shutdown Signal the sink holds what the last pass of the loop
\* left there, whatever the deque and the queue still hold
C20_NoFinalFlush ==
    cpc = "done" =>
      /\ Len(files) = last.nfiles + (IF last.flushed THEN 1 ELSE 0)
      /\ (last.n = 0 => files = <<>>)
      /\ (last.n > 0 /\ ~last.flushed) => buffer = HeldAtFlush

C20_Witness ==
    /\ cpc = "done"
    /\ proc = "exit0"
    /\ interesting_events(buffer) >= minEvents
    /\ queue # <<>>
    /\ files = <<>>

----------------------------------------------------------------------------
(* Scoring the windows of one block (process lines 107-115 and              *)
(* estimate_interestingness). The input is the spectrum fft.process returns *)
(* for a window; every window of the block has the same spectrum.           *)
(* Magnitudes are small naturals: on them the f32 quotient is exact enough  *)
(* that quotient > 3.0 holds exactly when high > 3 * low.                   *)

\* SimpleFft::new(128)
fftLen == 128
\* sorted[sorted.len() * 75 / 100], sorted[sorted.len() * 95 / 100]
lowPercent == 75
highPercent == 95
\* interestingness > 3.
threshold == 3

\* widest window below the configured one, largest magnitude, windows scored
MaxWidth == 22
MaxMag == 4
MaxWindows == 2

Widths == (2 .. MaxWidth) \cup {fftLen}

\* a spectrum of w bins, all lo but bin p, which is hi
OneBin(w, p, lo, hi) == [i \in 1 .. w |-> IF i = p THEN hi ELSE lo]

Spectra ==
    UNION { { OneBin(w, p, lo, hi) : p \in 1 .. w, lo \in 0 .. MaxMag, hi \in 0 .. MaxMag }
            : w \in Widths }

\* a quotient that treats 0.0 / 0.0 like x / 0.0
divide_ZeroByZeroInf(high, low) ==
    IF low = 0
    THEN [kind |-> "inf", high |-> high, low |-> low]
    ELSE [kind |-> "ratio", high |-> high, low |-> low]

\* high_estimate / low_estimate in f32: 0.0 / 0.0 is NaN, x / 0.0 is +inf
\* for x > 0, any other quotient is kept as its two terms
divide(high, low) ==
    IF low = 0
    THEN IF high = 0
         THEN [kind |-> "nan", high |-> high, low |-> low]
         ELSE [kind |-> "inf", high |-> high, low |-> low]
    ELSE [kind |-> "ratio", high |-> high, low |-> low]

\* interestingness > 3. : false for NaN, true for +inf
GreaterThanThreshold(q) ==
    \/ q.kind = "inf"
    \/ q.kind = "ratio" /\ q.high > threshold * q.low

\* sorted.sort_unstable_by(f32::total_cmp), on magnitudes (none negative)
sort(chunk) == SortSeq(chunk, LAMBDA a, b : a < b)

\* an estimator that takes the largest bin for the high estimate
estimate_interestingness_Max(chunk) ==
    LET sorted == sort(chunk)
        low_estimate == sorted[(Len(sorted) * lowPercent) \div 100 + 1]
        high_estimate == sorted[Len(sorted)]
    IN  divide(high_estimate, low_estimate)

\* fn estimate_interestingness, from the spectrum on (indices are 0-based in
\* the code, 1-based here)
estimate_interestingness(chunk) ==
    LET sorted == sort(chunk)
        low_estimate == sorted[(Len(sorted) * lowPercent) \div 100 + 1]
        high_estimate == sorted[(Len(sorted) * highPercent) \div 100 + 1]
    IN  divide(high_estimate, low_estimate)

InitScore ==
    /\ InitThreads
    /\ spectrum \in Spectra

\* one pass of: for chunk in buf.chunks_exact(2 * fft.len)
ScoreChunk ==
    /\ win < MaxWindows
    /\ LET interestingness == estimate_interestingness(spectrum)
           interesting == GreaterThanThreshold(interestingness)
       IN  /\ score' = interestingness
           /\ interesting_in_this_buf' =
                IF interesting THEN interesting_in_this_buf + 1
                               ELSE interesting_in_this_buf
    /\ win' = win + 1
    /\ UNCHANGED spectrum
    /\ UNCHANGED <<queue, cur, cpc, after>>
    /\ UNCHANGED ProducerVars
    /\ UNCHANGED MainVars
    /\ UNCHANGED SignalVars
    /\ UNCHANGED EBVars

SpecScore == InitScore /\ [][ScoreChunk]_vars

\* C12 and C13 speak of the spectrum itself; these read it bin by bin
ZeroBins == Cardinality({ i \in DOMAIN spectrum : spectrum[i] = 0 })
LowIsZero == ZeroBins > (Len(spectrum) * lowPercent) \div 100
HighIsZero == ZeroBins > (Len(spectrum) * highPercent) \div 100
AllZero == \A i \in DOMAIN spectrum : spectrum[i] = 0
Counted == interesting_in_this_buf = win
NotCounted == interesting_in_this_buf = 0

\* C12 as stated: a spectrum whose 75th-percentile magnitude is zero, the
\* all-zero spectrum in particular, scores +infinity and every such window
\* is counted in the block's hit count
C12_Orig_ZeroLowScoresInfinity ==
    (win > 0 /\ LowIsZero) => (score.kind = "inf" /\ Counted)

\* C12: a spectrum whose 75th-percentile magnitude is zero scores +infinity
\* and is counted when its 95th-percentile magnitude is positive; when that
\* is zero too, as in the all-zero spectrum, the score is NaN, which is not
\* greater than the threshold, and the window is not counted
C12_ZeroLowScoresInfinityOrNaN ==
    (win > 0 /\ LowIsZero) =>
        IF HighIsZero
        THEN score.kind = "nan" /\ NotCounted
        ELSE score.kind = "inf" /\ Counted

C12_Witness ==
    /\ win = MaxWindows
    /\ Len(spectrum) = fftLen
    /\ AllZero
    /\ score.kind = "nan"
    /\ interesting_in_this_buf = 0

\* exactly one bin at least 4 times as high as the others, which are equal
\* and positive
IsolatedHighBin ==
    /\ Len(spectrum) >= 2
    /\ \E p \in DOMAIN spectrum :
         LET lo == spectrum[IF p = 1 THEN 2 ELSE 1]
         IN  /\ lo > 0
             /\ spectrum[p] >= 4 * lo
             /\ \A i \in DOMAIN spectrum \ {p} : spectrum[i] = lo

\* C13 as stated: for every windowWidth >= 20, the configured 128 included,
\* a spectrum of one high bin among equal positive low bins scores above the
\* threshold
C13_Orig_IsolatedBinInterestingFrom20 ==
    (win > 0 /\ IsolatedHighBin /\ Len(spectrum) >= 20)
        => (GreaterThanThreshold(score) /\ Counted)

\* C13: a spectrum of one high bin among equal positive low bins scores
\* above the threshold exactly for 5 <= windowWidth <= 20; for a wider
\* window, the configured 128 included, both estimates fall on low bins, the
\* score is 1 and the window is not counted
C13_IsolatedBinInterestingUpTo20 ==
    (win > 0 /\ IsolatedHighBin) =>
        IF Len(spectrum) >= 5 /\ Len(spectrum) <= 20
        THEN score.kind = "ratio" /\ score.high >= 4 * score.low /\ Counted
        ELSE score.kind = "ratio" /\ score.high = score.low /\ NotCounted

C13_Witness ==
    /\ win = MaxWindows
    /\ IsolatedHighBin
    /\ Len(spectrum) = 20
    /\ Counted

====
